---- MODULE Spec2Model ----
(***************************************************************************)
(* Model of weaviate_cli.py: one process invocation of the command-line    *)
(* tool.  The process is single-threaded; the state machine steps at every *)
(* point where the program reads an input (argv, the YAML file, the        *)
(* environment, a prompt) or calls the client library, so that the order   *)
(* of those interactions is visible in the behaviour.                      *)
(*                                                                         *)
(* Python None is the empty tuple, a present value v is <<v>>.             *)
(***************************************************************************)
EXTENDS Integers, Sequences, FiniteSets, TLC

VARIABLES
    argv,             \* the command line: resource, action and options
    environ,          \* os.environ
    files,            \* what yaml.safe_load finds at the --config-file path
    args,             \* the argparse namespace built by parser.parse_args()
    config_from_file, \* main's local config_from_file
    prompted,         \* outcome of getpass.getpass, None while not consulted
    pc,               \* position of the process
    client,           \* the module-level global `client`
    conn,             \* the connection object returned by connect_to_custom
    ready,            \* is_ready() returned True for that object
    pending,          \* exit status the process will leave main() with
    exitStatus,       \* exit status of the terminated process, None while running
    handlersRun,      \* the handler functions main has called, in order
    trace,            \* the client-library calls issued so far, in order
    items,            \* the entries a list handler still has to visit
    confirm,          \* the answer typed at a confirmation prompt, None if none
    propagated,       \* an exception left the handler and reached main
    server,           \* what the Weaviate instance holds
    server0           \* what it held when the process started

vars == <<argv, environ, files, args, config_from_file, prompted, pc, client, conn,
          ready, pending, exitStatus, handlersRun, trace, items, confirm,
          propagated, server, server0>>

None == <<>>
Some(v) == <<v>>

\* Python truthiness of an optional string: None and "" are false.
Truthy(o) == o # None /\ o[1] # ""

\* dict.get(key, default) on a mapping whose absent keys are None.
DictGet(d, k, default) == IF d[k] = None THEN default ELSE d[k]

-----------------------------------------------------------------------------
(* Bounds and input domains *)

\* Largest number of entries a list_all call returns.
MaxItems == 2

ItemIds == 1..MaxItems

\* The user_id named by --user-id is entry 1 of the identifiers a listing can hold.
TargetId == 1

\* urlparse() results.  A URL is modelled by the components urlparse extracts.
Url(scheme, hostname, port) == [scheme |-> scheme, hostname |-> hostname, port |-> port]
GoodUrl == Url("https", "db.example", None)
BadUrl == Url("ftp", "db.example", None)
EmptyUrl == Url("", "", None)
CliUrl == Url("https", "cli.example", Some(8443))
YamlUrl == Url("http", "yaml.example", None)
EnvUrl == Url("https", "env.example", None)

EmptyDoc == [weaviate_url |-> None, api_key |-> None, root_key |-> None,
             grpc_host |-> None, grpc_port |-> None]

\* A --config-file path that cannot be opened or parsed (or no path at all).
Unreadable == [readable |-> FALSE, doc |-> EmptyDoc]

\* A file holding the mapping doc.
Readable(doc) == [readable |-> TRUE, doc |-> doc]

\* Role names --role can give and a user_id can hold.
RoleNames == {"r1", "r2"}

\* The instance: the collections, user_ids and roles it holds (the one a
\* command names is TargetId), the API keys of user_id TargetId ("old" is the
\* key it had when the process started, "new" one created since) and the roles
\* assigned to that user_id.
EmptyServer == [collections |-> {}, users |-> {}, roles |-> {}, keys |-> {},
                assigned |-> {}]

\* The instances a command on `resource` can meet; the parts of the instance
\* no handler of that resource reads or writes are left empty.
ServerStates(resource) ==
    {[collections |-> c, users |-> u, roles |-> r,
      keys |-> IF TargetId \in u THEN {"old"} ELSE {}, assigned |-> a] :
        c \in IF resource = Some("collection") THEN SUBSET ItemIds ELSE {{}},
        u \in IF resource = Some("user") THEN SUBSET ItemIds ELSE {{}},
        r \in IF resource = Some("role") THEN SUBSET ItemIds ELSE {{}},
        a \in IF resource = Some("user") THEN SUBSET RoleNames ELSE {{}}}
    \ {sv \in [collections : {{}}, users : SUBSET ItemIds, roles : {{}},
                keys : {{}}, assigned : SUBSET RoleNames] : sv.assigned # {}}

Resources == {None, Some("collection"), Some("user"), Some("role"), Some("bogus")}
Actions == {None, Some("create"), Some("delete"), Some("list"), Some("describe"),
            Some("update-roles"), Some("get"), Some("bogus")}

\* Exceptions the client library raises from a management call.
SdkErrors == {"WeaviateQueryException", "WeaviateConnectionError", "Exception"}

\* Exceptions connect_to_custom raises.
ConnectErrors == {"WeaviateConnectionError", "WeaviateStartUpError", "Exception"}

\* Answers typed at a "(yes/no)" prompt.
Answers == {"yes", "YES", "Yes", "no", ""}

\* str.lower() on the answers.
Lower(s) == CASE s = "YES" -> "yes"
              [] s = "Yes" -> "yes"
              [] OTHER -> s

-----------------------------------------------------------------------------
(* argparse: the parser main() builds *)

\* HandlerFor with the handlers of `role get` and `role list` exchanged.
HandlerFor_Swapped(resource, action) ==
    CASE resource = "collection" /\ action = "create" -> Some("handle_collection_create")
      [] resource = "collection" /\ action = "delete" -> Some("handle_collection_delete")
      [] resource = "collection" /\ action = "list" -> Some("handle_collection_list")
      [] resource = "collection" /\ action = "describe" -> Some("handle_collection_describe")
      [] resource = "user" /\ action = "create" -> Some("handle_user_create")
      [] resource = "user" /\ action = "delete" -> Some("handle_user_delete")
      [] resource = "user" /\ action = "list" -> Some("handle_user_list")
      [] resource = "user" /\ action = "update-roles" -> Some("handle_user_update_roles")
      [] resource = "role" /\ action = "create" -> Some("handle_role_create")
      [] resource = "role" /\ action = "delete" -> Some("handle_role_delete")
      [] resource = "role" /\ action = "get" -> Some("handle_role_list")
      [] resource = "role" /\ action = "list" -> Some("handle_role_get")
      [] OTHER -> None

\* set_defaults(func=...) of the twelve sub-subparsers.
HandlerFor(resource, action) ==
    CASE resource = "collection" /\ action = "create" -> Some("handle_collection_create")
      [] resource = "collection" /\ action = "delete" -> Some("handle_collection_delete")
      [] resource = "collection" /\ action = "list" -> Some("handle_collection_list")
      [] resource = "collection" /\ action = "describe" -> Some("handle_collection_describe")
      [] resource = "user" /\ action = "create" -> Some("handle_user_create")
      [] resource = "user" /\ action = "delete" -> Some("handle_user_delete")
      [] resource = "user" /\ action = "list" -> Some("handle_user_list")
      [] resource = "user" /\ action = "update-roles" -> Some("handle_user_update_roles")
      [] resource = "role" /\ action = "create" -> Some("handle_role_create")
      [] resource = "role" /\ action = "delete" -> Some("handle_role_delete")
      [] resource = "role" /\ action = "get" -> Some("handle_role_get")
      [] resource = "role" /\ action = "list" -> Some("handle_role_list")
      [] OTHER -> None

\* The sub-subparsers that define --detailed and --role.
AcceptsDetailed(resource, action) ==
    action = "list" /\ resource \in {"collection", "role"}

AcceptsRole(resource, action) ==
    resource = "user" /\ action \in {"create", "update-roles"}

\* parse_args() accepts the command line: both subparsers are required and
\* an option is accepted only by the subparser that defines it.
ArgvAccepted(a) ==
    /\ a.resource # None
    /\ a.action # None
    /\ HandlerFor(a.resource[1], a.action[1]) # None
    /\ a.detailed => AcceptsDetailed(a.resource[1], a.action[1])
    /\ a.role # <<>> => AcceptsRole(a.resource[1], a.action[1])

NoArgs == [command |-> None, action |-> None, func |-> None, url |-> None,
           root_key |-> None, grpc_host |-> None, grpc_port |-> None,
           config_file |-> None, recreate_api_key |-> FALSE, detailed |-> FALSE,
           role |-> <<>>]

-----------------------------------------------------------------------------
(* Initial states *)

InitRun ==
    /\ args = NoArgs
    /\ config_from_file = EmptyDoc
    /\ prompted = None
    /\ pc = "parse_args"
    /\ client = None
    /\ conn = "none"
    /\ ready = FALSE
    /\ pending = None
    /\ exitStatus = None
    /\ handlersRun = <<>>
    /\ trace = <<>>
    /\ items = {}
    /\ confirm = None
    /\ propagated = FALSE

\* Command lines, with few configuration sources: every subcommand and flag.
Init ==
    /\ argv \in [resource : Resources, action : Actions,
                 url : {None, Some(GoodUrl), Some(BadUrl)},
                 root_key : {None, Some("cli_key")},
                 grpc_host : {None}, grpc_port : {None}, config_file : {None},
                 recreate_api_key : BOOLEAN, detailed : BOOLEAN,
                 role : {<<>>, <<"r1">>}]
    /\ environ \in [WEAVIATE_API_KEY : {None, Some("env_key")}, WEAVIATE_ROOT_KEY : {None},
                    WEAVIATE_URL : {None}, WEAVIATE_GRPC_HOST : {None},
                    WEAVIATE_GRPC_PORT : {None}]
    /\ files = Unreadable
    /\ server \in ServerStates(argv.resource)
    /\ server0 = server
    /\ InitRun

\* One subcommand, with every combination of configuration sources.
InitConfig ==
    /\ argv \in [resource : {Some("role")}, action : {Some("list")},
                 url : {None, Some(EmptyUrl), Some(CliUrl)},
                 root_key : {None, Some(""), Some("cli_key")},
                 grpc_host : {None, Some("cli.grpc")},
                 grpc_port : {None, Some(443)},
                 config_file : {None, Some("config.yaml")},
                 recreate_api_key : {FALSE}, detailed : {FALSE}, role : {<<>>}]
    /\ environ \in [WEAVIATE_API_KEY : {None, Some(""), Some("env_api_key")},
                    WEAVIATE_ROOT_KEY : {None, Some("env_root_key")},
                    WEAVIATE_URL : {None, Some(EnvUrl)},
                    WEAVIATE_GRPC_HOST : {None, Some("env.grpc")},
                    WEAVIATE_GRPC_PORT : {None, Some(50052)}]
    /\ files \in {Unreadable} \cup
                 {Readable(doc) : doc \in
                     [weaviate_url : {None, Some(YamlUrl)},
                      api_key : {None, Some("yaml_api_key")},
                      root_key : {None, Some("yaml_root_key")},
                      grpc_host : {None, Some("yaml.grpc")},
                      grpc_port : {None, Some(80)}]}
    /\ (argv.config_file = None => files = Unreadable)
    /\ server = EmptyServer
    /\ server0 = server
    /\ InitRun

-----------------------------------------------------------------------------
(* main(): lines 729-760 *)

\* Variables of the handlers, untouched by main's prologue.
handlerVars == <<client, conn, ready, handlersRun, trace, items, confirm, propagated,
                 server, server0>>

\* args = parser.parse_args(): a rejected command line ends the process with
\* argparse's status 2.
ParseArgs ==
    /\ pc = "parse_args"
    /\ IF ArgvAccepted(argv)
       THEN /\ args' = [command |-> argv.resource, action |-> argv.action,
                        func |-> HandlerFor(argv.resource[1], argv.action[1]),
                        url |-> argv.url, root_key |-> argv.root_key,
                        grpc_host |-> argv.grpc_host, grpc_port |-> argv.grpc_port,
                        config_file |-> argv.config_file,
                        recreate_api_key |-> argv.recreate_api_key,
                        detailed |-> argv.detailed, role |-> argv.role]
            /\ pc' = "load_config"
            /\ UNCHANGED exitStatus
       ELSE /\ pc' = "exited"
            /\ exitStatus' = Some(2)
            /\ UNCHANGED args
    /\ UNCHANGED <<argv, environ, files, config_from_file, prompted, pending>>
    /\ UNCHANGED handlerVars

\* load_config_from_yaml: the mapping in the file, {} when the file cannot be
\* opened or parsed.
load_config_from_yaml(content) == IF content.readable THEN content.doc ELSE EmptyDoc

\* FlagOr with the file's value preferred to the flag's.
FlagOr_FileFirst(flag, fallback) == IF fallback # None THEN fallback ELSE flag

\* `flag if flag is not None else fallback`
FlagOr(flag, fallback) == IF flag # None THEN flag ELSE fallback

\* Lines 731-740: the four connection settings, CLI flag first, then the file.
LoadConfig ==
    /\ pc = "load_config"
    /\ LET cfg == IF Truthy(args.config_file) THEN load_config_from_yaml(files) ELSE EmptyDoc
       IN /\ config_from_file' = cfg
          /\ args' = [args EXCEPT
                 !.url = FlagOr(args.url, DictGet(cfg, "weaviate_url", None)),
                 !.root_key = FlagOr(args.root_key,
                                     DictGet(cfg, "api_key", DictGet(cfg, "root_key", None))),
                 !.grpc_host = FlagOr(args.grpc_host, DictGet(cfg, "grpc_host", None)),
                 !.grpc_port = FlagOr(args.grpc_port, DictGet(cfg, "grpc_port", None))]
    /\ pc' = "check_command"
    /\ UNCHANGED <<argv, environ, files, prompted, pending, exitStatus>>
    /\ UNCHANGED handlerVars

\* Lines 742-752: a namespace without command or action prints help and exits 1.
CheckCommand ==
    /\ pc = "check_command"
    /\ IF args.command = None \/ args.action = None
       THEN /\ pc' = "exited"
            /\ exitStatus' = Some(1)
       ELSE /\ pc' = "root_key"
            /\ UNCHANGED exitStatus
    /\ UNCHANGED <<argv, environ, files, args, config_from_file, prompted, pending>>
    /\ UNCHANGED handlerVars

\* Lines 754-757: a missing or empty key is looked up in the environment.
RootKey ==
    /\ pc = "root_key"
    /\ IF Truthy(args.root_key)
       THEN /\ pc' = "dispatch"
            /\ UNCHANGED args
       ELSE LET k == DictGet(environ, "WEAVIATE_API_KEY",
                             DictGet(environ, "WEAVIATE_ROOT_KEY", None))
            IN /\ args' = [args EXCEPT !.root_key = k]
               /\ pc' = IF Truthy(k) THEN "dispatch" ELSE "getpass"
    /\ UNCHANGED <<argv, environ, files, config_from_file, prompted, pending, exitStatus>>
    /\ UNCHANGED handlerVars

\* GetPass without the check of line 760: an empty answer is accepted.
GetPass_AcceptEmpty ==
    /\ pc = "getpass"
    /\ \E answer \in {"raise", "", "prompt_key"} :
          /\ prompted' = Some(answer)
          /\ IF answer = "raise"
             THEN /\ pc' = "exited"
                  /\ exitStatus' = Some(1)
                  /\ UNCHANGED args
             ELSE /\ args' = [args EXCEPT !.root_key = Some(answer)]
                  /\ pc' = "dispatch"
                  /\ UNCHANGED exitStatus
    /\ UNCHANGED <<argv, environ, files, config_from_file, pending>>
    /\ UNCHANGED handlerVars

\* Lines 758-760: the prompt; an exception or an empty answer ends the process
\* with status 1 (close_connection() finds client None here).
GetPass ==
    /\ pc = "getpass"
    /\ \E answer \in {"raise", "", "prompt_key"} :
          /\ prompted' = Some(answer)
          /\ IF answer = "raise"
             THEN /\ pc' = "exited"
                  /\ exitStatus' = Some(1)
                  /\ UNCHANGED args
             ELSE /\ args' = [args EXCEPT !.root_key = Some(answer)]
                  /\ IF answer = ""
                     THEN pc' = "exited" /\ exitStatus' = Some(1)
                     ELSE pc' = "dispatch" /\ UNCHANGED exitStatus
    /\ UNCHANGED <<argv, environ, files, config_from_file, pending>>
    /\ UNCHANGED handlerVars

NextConfig == ParseArgs \/ LoadConfig \/ CheckCommand \/ RootKey \/ GetPass

SpecConfig == InitConfig /\ [][NextConfig]_vars

-----------------------------------------------------------------------------
(* The trace of client-library calls *)

HttpsPort == 443
HttpPort == 80
DefaultGrpcPort == 50051

NoParams == [http_host |-> "", http_port |-> 0, http_secure |-> FALSE,
             grpc_host |-> "", grpc_port |-> 0, grpc_secure |-> FALSE]

\* One call into the client library, with the state of the client it was made on.
\* kind: "connect" (connect_to_custom), "is_ready", "close", or "call" (a
\* management call); res: "ok", "True", "False" or the exception raised.
Event(kind, op, arg, res, its, params) ==
    [kind |-> kind, op |-> op, arg |-> arg, res |-> res, items |-> its, params |-> params,
     client |-> client, conn |-> conn, ready |-> ready]

\* The answers the instance can give to a management call: exists and
\* list_all report what it holds, create succeeds only for a name it does not
\* hold, and deleting or assigning roles to a user_id succeeds only if it has
\* that user_id.  Any call can raise.
Allowed(op, res, its, sv) ==
    CASE op = "collections.exists" -> /\ res = "True" => TargetId \in sv.collections
                                      /\ res = "False" => TargetId \notin sv.collections
      [] op = "roles.exists" -> /\ res = "True" => TargetId \in sv.roles
                                /\ res = "False" => TargetId \notin sv.roles
      [] op = "collections.list_all" -> res = "ok" => its = sv.collections
      [] op = "users.list_all" -> res = "ok" => its = sv.users
      [] op = "roles.list_all" -> res = "ok" => its = sv.roles
      [] op = "collections.create" -> res = "ok" => TargetId \notin sv.collections
      [] op = "users.create" -> res = "ok" => TargetId \notin sv.users
      [] op = "roles.create" -> res = "ok" => TargetId \notin sv.roles
      [] op = "users.delete" -> res = "ok" => TargetId \in sv.users
      [] op = "users.assign_roles" -> res = "ok" => TargetId \in sv.users
      [] OTHER -> TRUE

\* The instance after a management call.  Only a call that returned changes
\* it.  assign_roles grants the named roles in addition to those the user_id
\* holds (the library takes roles away with revoke_roles, which no handler
\* calls); deleting a user_id removes its key and its role assignments.
ServerAfter(op, res, its, sv) ==
    IF res # "ok" THEN sv
    ELSE CASE op = "collections.create" ->
                  [sv EXCEPT !.collections = @ \cup {TargetId}]
           [] op = "collections.delete" ->
                  [sv EXCEPT !.collections = @ \ {TargetId}]
           [] op = "users.create" ->
                  [sv EXCEPT !.users = @ \cup {TargetId}, !.keys = @ \cup {"new"}]
           [] op = "users.delete" ->
                  [sv EXCEPT !.users = @ \ {TargetId}, !.keys = {}, !.assigned = {}]
           [] op = "users.assign_roles" ->
                  [sv EXCEPT !.assigned = @ \cup its]
           [] op = "roles.create" ->
                  [sv EXCEPT !.roles = @ \cup {TargetId}]
           [] op = "roles.delete" ->
                  [sv EXCEPT !.roles = @ \ {TargetId}]
           [] OTHER -> sv

\* A management call: it is recorded, and the instance answers and changes.
Call(op, arg, res, its) ==
    /\ Allowed(op, res, its, server)
    /\ trace' = Append(trace, Event("call", op, arg, res, its, NoParams))
    /\ server' = ServerAfter(op, res, its, server)

\* The role names of a --role list.
RoleSet(role) == {role[i] : i \in DOMAIN role}

BoolOrErr == {"True", "False"} \cup SdkErrors
OkOrErr == {"ok"} \cup SdkErrors

\* What the handlers leave alone.
Frame == UNCHANGED <<argv, environ, files, args, config_from_file, prompted, exitStatus,
                     handlersRun, client, conn, ready, server0>>

Goto(label) == pc' = label /\ UNCHANGED <<pending, propagated>>

\* The handler returns to main, which will leave with status 0.
Return == pc' = "finally" /\ pending' = Some(0) /\ UNCHANGED propagated

\* exit(code): SystemExit passes every `except Exception` up to main's finally.
Exit(code) == pc' = "finally" /\ pending' = Some(code) /\ UNCHANGED propagated

\* An exception no handler catches: main's finally runs, then the interpreter
\* prints the traceback and exits with status 1.
Propagate == pc' = "finally" /\ pending' = Some(1) /\ propagated' = TRUE

-----------------------------------------------------------------------------
(* main(): lines 762-767 *)

\* First step of each handler after connect_to_weaviate has returned.
EntryOf(func) ==
    CASE func = "handle_collection_create" -> "collection_create:exists"
      [] func = "handle_collection_delete" -> "collection_delete:confirm"
      [] func = "handle_collection_list" -> "collection_list:list_all"
      [] func = "handle_collection_describe" -> "collection_describe:exists"
      [] func = "handle_user_create" -> "user_create:list_all"
      [] func = "handle_user_delete" -> "user_delete:confirm"
      [] func = "handle_user_list" -> "user_list:list_all"
      [] func = "handle_user_update_roles" -> "user_update_roles:assign_roles"
      [] func = "handle_role_create" -> "role_create:exists"
      [] func = "handle_role_delete" -> "role_delete:confirm"
      [] func = "handle_role_get" -> "role_get:get"
      [] func = "handle_role_list" -> "role_list:list_all"

\* args.func(args) inside try/finally; without func, help is printed, the
\* connection is closed and main returns.  Every handler starts by calling
\* connect_to_weaviate.
Dispatch ==
    /\ pc = "dispatch"
    /\ IF args.func # None
       THEN /\ handlersRun' = Append(handlersRun, args.func[1])
            /\ pc' = "connect"
            /\ UNCHANGED pending
       ELSE /\ pc' = "finally"
            /\ pending' = Some(0)
            /\ UNCHANGED handlersRun
    /\ UNCHANGED <<argv, environ, files, args, config_from_file, prompted, exitStatus,
                   client, conn, ready, trace, items, confirm, propagated>>
    /\ UNCHANGED <<server, server0>>

\* close_connection(), lines 169-179, as main's finally clause, followed by the
\* end of the process.  An exception from close() is caught and printed.
Finally ==
    /\ pc = "finally"
    /\ IF client # None
       THEN \E res \in {"ok", "Exception"} :
               /\ trace' = Append(trace, Event("close", "close", 0, res, {}, NoParams))
               /\ conn' = IF res = "ok" THEN "closed" ELSE conn
       ELSE UNCHANGED <<trace, conn>>
    /\ client' = None
    /\ exitStatus' = pending
    /\ pc' = "exited"
    /\ UNCHANGED <<argv, environ, files, args, config_from_file, prompted, pending,
                   handlersRun, ready, items, confirm, propagated>>
    /\ UNCHANGED <<server, server0>>

-----------------------------------------------------------------------------
(* connect_to_weaviate: lines 71-167 *)

ParseError == [ok |-> FALSE, host |-> "", port |-> 0, secure |-> FALSE]

\* parse_http_url_details, lines 49-69; ok is FALSE where it raises ValueError.
\* urlparse(None) yields empty components.
parse_http_url_details(url) ==
    LET parsed == IF url = None THEN EmptyUrl ELSE url[1]
        http_secure == parsed.scheme = "https"
    IN IF parsed.scheme \notin {"http", "https"} THEN ParseError
       ELSE IF parsed.hostname = "" THEN ParseError
       ELSE [ok |-> TRUE, host |-> parsed.hostname,
             port |-> IF parsed.port = None \/ parsed.port[1] = 0
                      THEN (IF http_secure THEN HttpsPort ELSE HttpPort)
                      ELSE parsed.port[1],
             secure |-> http_secure]

\* ConnectionParams without the rule for ports 443 and 80.
ConnectionParams_SecureFromUrl(url, cli_grpc_host, cli_grpc_port) ==
    LET http == parse_http_url_details(url)
    IN [http_host |-> http.host, http_port |-> http.port, http_secure |-> http.secure,
        grpc_host |-> IF Truthy(cli_grpc_host) THEN cli_grpc_host[1] ELSE http.host,
        grpc_port |-> IF cli_grpc_port # None THEN cli_grpc_port[1] ELSE DefaultGrpcPort,
        grpc_secure |-> http.secure]

\* Lines 95-105: the keyword arguments of connect_to_custom.
ConnectionParams(url, cli_grpc_host, cli_grpc_port) ==
    LET http == parse_http_url_details(url)
    IN [http_host |-> http.host, http_port |-> http.port, http_secure |-> http.secure,
        grpc_host |-> IF Truthy(cli_grpc_host) THEN cli_grpc_host[1] ELSE http.host,
        grpc_port |-> IF cli_grpc_port # None THEN cli_grpc_port[1] ELSE DefaultGrpcPort,
        grpc_secure |-> IF cli_grpc_port # None
                        THEN (IF cli_grpc_port[1] = HttpsPort THEN TRUE
                              ELSE IF cli_grpc_port[1] = HttpPort THEN FALSE
                              ELSE http.secure)
                        ELSE http.secure]

\* Lines 76-108.  The global client is None when the handler starts, so no
\* existing connection is reused or closed.  A ValueError from the URL leads
\* to exit(1).
ConnectToWeaviate ==
    /\ pc = "connect"
    /\ client = None
    /\ IF parse_http_url_details(args.url).ok
       THEN Goto("connect_to_custom")
       ELSE Exit(1)
    /\ UNCHANGED <<trace, items, confirm, server>>
    /\ Frame

\* ConnectToCustom that tries again after an exception.
ConnectToCustom_Retry ==
    /\ pc = "connect_to_custom"
    /\ \E res \in {"ok"} \cup ConnectErrors :
          /\ trace' = Append(trace, Event("connect", "connect_to_custom", 0, res, {},
                                 ConnectionParams(args.url, args.grpc_host, args.grpc_port)))
          /\ IF res = "ok"
             THEN conn' = "open" /\ Goto("is_ready")
             ELSE UNCHANGED conn /\ Goto("connect_to_custom")
    /\ UNCHANGED <<argv, environ, files, args, config_from_file, prompted, exitStatus,
                   handlersRun, client, ready, items, confirm>>
    /\ UNCHANGED <<server, server0>>

\* Lines 115-124 and the except clauses 145-167: any exception leads to exit(1).
ConnectToCustom ==
    /\ pc = "connect_to_custom"
    /\ \E res \in {"ok"} \cup ConnectErrors :
          /\ trace' = Append(trace, Event("connect", "connect_to_custom", 0, res, {},
                                 ConnectionParams(args.url, args.grpc_host, args.grpc_port)))
          /\ IF res = "ok"
             THEN conn' = "open" /\ Goto("is_ready")
             ELSE UNCHANGED conn /\ Exit(1)
    /\ UNCHANGED <<argv, environ, files, args, config_from_file, prompted, exitStatus,
                   handlersRun, client, ready, items, confirm>>
    /\ UNCHANGED <<server, server0>>

\* IsReady that lets the handler continue when the instance is not ready.
IsReady_IgnoreNotReady ==
    /\ pc = "is_ready"
    /\ \E res \in {"True", "False", "Exception"} :
          /\ trace' = Append(trace, Event("is_ready", "is_ready", 0, res, {}, NoParams))
          /\ CASE res = "True" ->
                    /\ client' = Some("new_client")
                    /\ ready' = TRUE
                    /\ Goto(EntryOf(args.func[1]))
               [] res = "False" ->
                    /\ client' = Some("new_client")
                    /\ UNCHANGED ready
                    /\ Goto(EntryOf(args.func[1]))
               [] OTHER ->
                    /\ Exit(1)
                    /\ UNCHANGED <<client, ready>>
    /\ UNCHANGED <<argv, environ, files, args, config_from_file, prompted, exitStatus,
                   handlersRun, conn, items, confirm>>
    /\ UNCHANGED <<server, server0>>

\* Line 126 and lines 136-138: a ready instance becomes the global client and
\* the handler continues.  An exception from is_ready() reaches
\* `except Exception` (163-167), where the global client is still None.
IsReady ==
    /\ pc = "is_ready"
    /\ \E res \in {"True", "False", "Exception"} :
          /\ trace' = Append(trace, Event("is_ready", "is_ready", 0, res, {}, NoParams))
          /\ CASE res = "True" ->
                    /\ client' = Some("new_client")
                    /\ ready' = TRUE
                    /\ Goto(EntryOf(args.func[1]))
               [] res = "False" ->
                    /\ Goto("not_ready")
                    /\ UNCHANGED <<client, ready>>
               [] OTHER ->
                    /\ Exit(1)
                    /\ UNCHANGED <<client, ready>>
    /\ UNCHANGED <<argv, environ, files, args, config_from_file, prompted, exitStatus,
                   handlersRun, conn, items, confirm>>
    /\ UNCHANGED <<server, server0>>

\* NotReady that exits with status 0.
NotReady_ExitZero ==
    /\ pc = "not_ready"
    /\ \E res \in {"ok", "Exception"} :
          /\ trace' = Append(trace, Event("close", "close", 0, res, {}, NoParams))
          /\ conn' = IF res = "ok" THEN "closed" ELSE conn
    /\ Exit(0)
    /\ UNCHANGED <<argv, environ, files, args, config_from_file, prompted, exitStatus,
                   handlersRun, client, ready, items, confirm>>
    /\ UNCHANGED <<server, server0>>

\* Lines 127-134: is_live() is printed whatever it does, the new client is
\* closed and the process exits; an exception from close() reaches
\* `except Exception`, which exits as well.
NotReady ==
    /\ pc = "not_ready"
    /\ \E res \in {"ok", "Exception"} :
          /\ trace' = Append(trace, Event("close", "close", 0, res, {}, NoParams))
          /\ conn' = IF res = "ok" THEN "closed" ELSE conn
    /\ Exit(1)
    /\ UNCHANGED <<argv, environ, files, args, config_from_file, prompted, exitStatus,
                   handlersRun, client, ready, items, confirm>>
    /\ UNCHANGED <<server, server0>>

-----------------------------------------------------------------------------
(* Collection handlers *)

\* The entry a list handler visits next.
NextItem(its) == CHOOSE i \in its : \A j \in its : i <= j

\* handle_collection_create, lines 225-227: the exists check is outside any
\* try block, so an exception from it leaves the handler.
CollectionCreateExists ==
    /\ pc = "collection_create:exists"
    /\ \E res \in BoolOrErr :
          /\ Call("collections.exists", TargetId, res, {})
          /\ CASE res = "True" -> Return
               [] res = "False" -> Goto("collection_create:create")
               [] OTHER -> Propagate
    /\ UNCHANGED <<items, confirm>>
    /\ Frame

\* Lines 229-286: the configuration objects are built locally, then
\* collections.create is called inside try/except Exception.
CollectionCreateCreate ==
    /\ pc = "collection_create:create"
    /\ \E res \in OkOrErr : Call("collections.create", TargetId, res, {})
    /\ Return
    /\ UNCHANGED <<items, confirm>>
    /\ Frame

\* CollectionDeleteConfirm with the comparison inverted.
CollectionDeleteConfirm_Inverted ==
    /\ pc = "collection_delete:confirm"
    /\ \E answer \in Answers :
          /\ confirm' = Some(answer)
          /\ IF Lower(answer) = "yes" THEN Return ELSE Goto("collection_delete:delete")
    /\ UNCHANGED <<trace, items, server>>
    /\ Frame
\* handle_collection_delete, lines 289-295: any answer other than "yes" (in any
\* letter case) cancels.
CollectionDeleteConfirm ==
    /\ pc = "collection_delete:confirm"
    /\ \E answer \in Answers :
          /\ confirm' = Some(answer)
          /\ IF Lower(answer) # "yes" THEN Return ELSE Goto("collection_delete:delete")
    /\ UNCHANGED <<trace, items, server>>
    /\ Frame

\* Lines 296-303: collections.delete; every exception is caught and printed.
CollectionDeleteDelete ==
    /\ pc = "collection_delete:delete"
    /\ \E res \in OkOrErr : Call("collections.delete", TargetId, res, {})
    /\ Return
    /\ UNCHANGED <<items, confirm>>
    /\ Frame

\* handle_collection_list, lines 309-336: list_all, then with --detailed one
\* config.get() per collection returned.
CollectionListAll ==
    /\ pc = "collection_list:list_all"
    /\ \/ /\ \E res \in SdkErrors : Call("collections.list_all", 0, res, {})
          /\ Return
          /\ UNCHANGED items
       \/ \E its \in SUBSET ItemIds :
             /\ Call("collections.list_all", 0, "ok", its)
             /\ items' = IF args.detailed THEN its ELSE {}
             /\ IF items' = {} THEN Return ELSE Goto("collection_list:item")
    /\ UNCHANGED confirm
    /\ Frame

\* Lines 314-328: the loop body; an exception from config.get() is caught
\* inside the loop.
CollectionListItem ==
    /\ pc = "collection_list:item"
    /\ \E res \in OkOrErr : Call("config.get", NextItem(items), res, {})
    /\ items' = items \ {NextItem(items)}
    /\ IF items' = {} THEN Return ELSE Goto("collection_list:item")
    /\ UNCHANGED confirm
    /\ Frame

\* handle_collection_describe, lines 342-345, inside try/except Exception.
CollectionDescribeExists ==
    /\ pc = "collection_describe:exists"
    /\ \E res \in BoolOrErr :
          /\ Call("collections.exists", TargetId, res, {})
          /\ IF res = "True" THEN Goto("collection_describe:get") ELSE Return
    /\ UNCHANGED <<items, confirm>>
    /\ Frame

\* Line 347.
CollectionDescribeGet ==
    /\ pc = "collection_describe:get"
    /\ \E res \in OkOrErr :
          /\ Call("collections.get", TargetId, res, {})
          /\ IF res = "ok" THEN Goto("collection_describe:config") ELSE Return
    /\ UNCHANGED <<items, confirm>>
    /\ Frame

\* Lines 348-380: config.get(), then the JSON document is printed.
CollectionDescribeConfig ==
    /\ pc = "collection_describe:config"
    /\ \E res \in OkOrErr : Call("config.get", TargetId, res, {})
    /\ Return
    /\ UNCHANGED <<items, confirm>>
    /\ Frame

-----------------------------------------------------------------------------
(* User handlers *)

\* UserCreateListAll that creates the new key without deleting the old one.
UserCreateListAll_SkipDelete ==
    /\ pc = "user_create:list_all"
    /\ \/ /\ \E res \in SdkErrors : Call("users.list_all", 0, res, {})
          /\ Return
       \/ \E its \in SUBSET ItemIds :
             LET user_id_exists == TargetId \in its
             IN /\ Call("users.list_all", 0, "ok", its)
                /\ IF user_id_exists /\ ~args.recreate_api_key
                   THEN IF args.role # <<>>
                        THEN Goto("user_create:assign_roles")
                        ELSE Return
                   ELSE Goto("user_create:create")
    /\ UNCHANGED <<items, confirm>>
    /\ Frame

\* handle_user_create, lines 392-399: list_all decides whether the user_id
\* already has a key; an existing key is kept unless --recreate-api-key.
UserCreateListAll ==
    /\ pc = "user_create:list_all"
    /\ \/ /\ \E res \in SdkErrors : Call("users.list_all", 0, res, {})
          /\ Return
       \/ \E its \in SUBSET ItemIds :
             LET user_id_exists == TargetId \in its
             IN /\ Call("users.list_all", 0, "ok", its)
                /\ IF user_id_exists /\ ~args.recreate_api_key
                   THEN IF args.role # <<>>
                        THEN Goto("user_create:assign_roles")
                        ELSE Return
                   ELSE IF user_id_exists /\ args.recreate_api_key
                        THEN Goto("user_create:delete")
                        ELSE Goto("user_create:create")
    /\ UNCHANGED <<items, confirm>>
    /\ Frame

\* UserCreateDelete that gives up when the delete fails.
UserCreateDelete_StopOnFailure ==
    /\ pc = "user_create:delete"
    /\ \E res \in OkOrErr :
          /\ Call("users.delete", TargetId, res, {})
          /\ IF res = "ok" THEN Goto("user_create:create") ELSE Return
    /\ UNCHANGED <<items, confirm>>
    /\ Frame

\* Lines 400-405: the old key is deleted; a failure is only a warning.
UserCreateDelete ==
    /\ pc = "user_create:delete"
    /\ \E res \in OkOrErr : Call("users.delete", TargetId, res, {})
    /\ Goto("user_create:create")
    /\ UNCHANGED <<items, confirm>>
    /\ Frame

\* UserCreateCreate that assigns the roles although the create call raised.
UserCreateCreate_IgnoreFailure ==
    /\ pc = "user_create:create"
    /\ \E res \in OkOrErr :
          /\ Call("users.create", TargetId, res, {})
          /\ IF args.role # <<>>
             THEN Goto("user_create:assign_roles")
             ELSE Return
    /\ UNCHANGED <<items, confirm>>
    /\ Frame

\* Lines 407-417: the key is created; an exception skips the role assignment.
UserCreateCreate ==
    /\ pc = "user_create:create"
    /\ \E res \in OkOrErr :
          /\ Call("users.create", TargetId, res, {})
          /\ IF res = "ok" /\ args.role # <<>>
             THEN Goto("user_create:assign_roles")
             ELSE Return
    /\ UNCHANGED <<items, confirm>>
    /\ Frame

\* Lines 412-422.
UserCreateAssignRoles ==
    /\ pc = "user_create:assign_roles"
    /\ \E res \in OkOrErr : Call("users.assign_roles", TargetId, res, RoleSet(args.role))
    /\ Return
    /\ UNCHANGED <<items, confirm>>
    /\ Frame

\* UserDeleteConfirm that cancels only on an empty answer.
UserDeleteConfirm_AcceptsNo ==
    /\ pc = "user_delete:confirm"
    /\ \E answer \in Answers :
          /\ confirm' = Some(answer)
          /\ IF answer = "" THEN Return ELSE Goto("user_delete:delete")
    /\ UNCHANGED <<trace, items, server>>
    /\ Frame
\* handle_user_delete, lines 425-433: any answer other than "yes" (in any
\* letter case) cancels.
UserDeleteConfirm ==
    /\ pc = "user_delete:confirm"
    /\ \E answer \in Answers :
          /\ confirm' = Some(answer)
          /\ IF Lower(answer) # "yes" THEN Return ELSE Goto("user_delete:delete")
    /\ UNCHANGED <<trace, items, server>>
    /\ Frame

\* Lines 435-445: users.delete; every exception is caught and printed.
UserDeleteDelete ==
    /\ pc = "user_delete:delete"
    /\ \E res \in OkOrErr : Call("users.delete", TargetId, res, {})
    /\ Return
    /\ UNCHANGED <<items, confirm>>
    /\ Frame

\* handle_user_list, lines 451-477: list_all, then get_assigned_roles for
\* every user_id returned.
UserListAll ==
    /\ pc = "user_list:list_all"
    /\ \/ /\ \E res \in SdkErrors : Call("users.list_all", 0, res, {})
          /\ Return
          /\ UNCHANGED items
       \/ \E its \in SUBSET ItemIds :
             /\ Call("users.list_all", 0, "ok", its)
             /\ items' = its
             /\ IF its = {} THEN Return ELSE Goto("user_list:item")
    /\ UNCHANGED confirm
    /\ Frame

\* Lines 455-471: the loop body; an exception from get_assigned_roles is
\* caught inside the loop.
UserListItem ==
    /\ pc = "user_list:item"
    /\ \E res \in OkOrErr : Call("users.get_assigned_roles", NextItem(items), res, {})
    /\ items' = items \ {NextItem(items)}
    /\ IF items' = {} THEN Return ELSE Goto("user_list:item")
    /\ UNCHANGED confirm
    /\ Frame

\* handle_user_update_roles, lines 486-495.
UserUpdateRolesAssign ==
    /\ pc = "user_update_roles:assign_roles"
    /\ \E res \in OkOrErr : Call("users.assign_roles", TargetId, res, RoleSet(args.role))
    /\ Return
    /\ UNCHANGED <<items, confirm>>
    /\ Frame

-----------------------------------------------------------------------------
(* Role handlers *)

\* RoleCreateExists that creates the role whatever the check answers.
RoleCreateExists_CreateAnyway ==
    /\ pc = "role_create:exists"
    /\ \E res \in BoolOrErr :
          /\ Call("roles.exists", TargetId, res, {})
          /\ IF res \in {"True", "False"} THEN Goto("role_create:create") ELSE Return
    /\ UNCHANGED <<items, confirm>>
    /\ Frame

\* handle_role_create, lines 503-506, inside try/except Exception.
RoleCreateExists ==
    /\ pc = "role_create:exists"
    /\ \E res \in BoolOrErr :
          /\ Call("roles.exists", TargetId, res, {})
          /\ IF res = "False" THEN Goto("role_create:create") ELSE Return
    /\ UNCHANGED <<items, confirm>>
    /\ Frame

\* Lines 508-537.
RoleCreateCreate ==
    /\ pc = "role_create:create"
    /\ \E res \in OkOrErr : Call("roles.create", TargetId, res, {})
    /\ Return
    /\ UNCHANGED <<items, confirm>>
    /\ Frame

\* handle_role_delete, lines 540-546: any answer other than "yes" (in any
\* letter case) cancels.
RoleDeleteConfirm ==
    /\ pc = "role_delete:confirm"
    /\ \E answer \in Answers :
          /\ confirm' = Some(answer)
          /\ IF Lower(answer) # "yes" THEN Return ELSE Goto("role_delete:delete")
    /\ UNCHANGED <<trace, items, server>>
    /\ Frame

\* Lines 547-557: roles.delete; every exception is caught and printed.
RoleDeleteDelete ==
    /\ pc = "role_delete:delete"
    /\ \E res \in OkOrErr : Call("roles.delete", TargetId, res, {})
    /\ Return
    /\ UNCHANGED <<items, confirm>>
    /\ Frame

\* handle_role_get, lines 563-581.
RoleGet ==
    /\ pc = "role_get:get"
    /\ \E res \in OkOrErr : Call("roles.get", TargetId, res, {})
    /\ Return
    /\ UNCHANGED <<items, confirm>>
    /\ Frame

\* handle_role_list, lines 587-626: list_all; when the entries are role names
\* (strings) and --detailed is set, roles.get is called for each of them.
RoleListAll ==
    /\ pc = "role_list:list_all"
    /\ \/ /\ \E res \in SdkErrors : Call("roles.list_all", 0, res, {})
          /\ Return
          /\ UNCHANGED items
       \/ \E its \in SUBSET ItemIds, format \in {"Role", "str", "other"} :
             /\ Call("roles.list_all", 0, "ok", its)
             /\ items' = IF format = "str" /\ args.detailed THEN its ELSE {}
             /\ IF items' = {} THEN Return ELSE Goto("role_list:item")
    /\ UNCHANGED confirm
    /\ Frame

\* Lines 602-608: an exception from roles.get is caught inside the loop.
RoleListItem ==
    /\ pc = "role_list:item"
    /\ \E res \in OkOrErr : Call("roles.get", NextItem(items), res, {})
    /\ items' = items \ {NextItem(items)}
    /\ IF items' = {} THEN Return ELSE Goto("role_list:item")
    /\ UNCHANGED confirm
    /\ Frame

-----------------------------------------------------------------------------
(* The process *)

Next ==
    \/ ParseArgs \/ LoadConfig \/ CheckCommand \/ RootKey \/ GetPass
    \/ Dispatch \/ Finally
    \/ ConnectToWeaviate \/ ConnectToCustom \/ IsReady \/ NotReady
    \/ CollectionCreateExists \/ CollectionCreateCreate
    \/ CollectionDeleteConfirm \/ CollectionDeleteDelete
    \/ CollectionListAll \/ CollectionListItem
    \/ CollectionDescribeExists \/ CollectionDescribeGet \/ CollectionDescribeConfig
    \/ UserCreateListAll \/ UserCreateDelete \/ UserCreateCreate \/ UserCreateAssignRoles
    \/ UserDeleteConfirm \/ UserDeleteDelete
    \/ UserListAll \/ UserListItem
    \/ UserUpdateRolesAssign
    \/ RoleCreateExists \/ RoleCreateCreate
    \/ RoleDeleteConfirm \/ RoleDeleteDelete
    \/ RoleGet
    \/ RoleListAll \/ RoleListItem

Spec == Init /\ [][Next]_vars

\* One subcommand with a key, and every combination of URL, gRPC host and
\* gRPC port, up to the call of connect_to_custom.
InitConnect ==
    /\ argv \in [resource : {Some("role")}, action : {Some("get")},
                 url : {Some(GoodUrl), Some(YamlUrl), Some(CliUrl), Some(BadUrl)},
                 root_key : {Some("cli_key")},
                 grpc_host : {None, Some(""), Some("grpc.example")},
                 grpc_port : {None, Some(443), Some(80), Some(50052)},
                 config_file : {None},
                 recreate_api_key : {FALSE}, detailed : {FALSE}, role : {<<>>}]
    /\ environ \in [WEAVIATE_API_KEY : {None}, WEAVIATE_ROOT_KEY : {None},
                    WEAVIATE_URL : {None}, WEAVIATE_GRPC_HOST : {None},
                    WEAVIATE_GRPC_PORT : {None}]
    /\ files = Unreadable
    /\ server = EmptyServer
    /\ server0 = server
    /\ InitRun

NextConnect ==
    \/ ParseArgs \/ LoadConfig \/ CheckCommand \/ RootKey \/ Dispatch
    \/ ConnectToWeaviate \/ ConnectToCustom \/ Finally

SpecConnect == InitConnect /\ [][NextConnect]_vars

-----------------------------------------------------------------------------
(* Vocabulary of the properties *)

IsCall(e) == e.kind = "call"
IsConnect(e) == e.kind = "connect"

\* The management calls issued so far, and the connect_to_custom calls.
Calls == SelectSeq(trace, IsCall)
Connects == SelectSeq(trace, IsConnect)

Raised(e) == e.res \notin {"ok", "True", "False"}

\* connect_to_weaviate returned a client: the readiness check answered True.
Connected == \E i \in DOMAIN trace : trace[i].kind = "is_ready" /\ trace[i].res = "True"

Exited == pc = "exited"
ExitedNonZero == pc = "exited" /\ exitStatus # None /\ exitStatus # Some(0)

\* What the configuration file supplies for a key: nothing without a readable
\* --config-file.
FileValue(k) == IF argv.config_file # None /\ files.readable THEN files.doc[k] ELSE None

\* The first of the optional values that is supplied: given, and not the empty
\* value of its kind.
Supplied(o, empty) == o # None /\ o # empty
FirstSupplied(sources, empty) ==
    IF \E i \in DOMAIN sources : Supplied(sources[i], empty)
    THEN sources[CHOOSE i \in DOMAIN sources :
                    /\ Supplied(sources[i], empty)
                    /\ \A j \in 1..(i - 1) : ~Supplied(sources[j], empty)]
    ELSE None

-----------------------------------------------------------------------------
(* C1: configuration precedence *)

FileKey == IF FileValue("api_key") # None THEN FileValue("api_key") ELSE FileValue("root_key")
EnvKey == IF environ.WEAVIATE_API_KEY # None THEN environ.WEAVIATE_API_KEY
          ELSE environ.WEAVIATE_ROOT_KEY
FlagOrFileKey == IF argv.root_key # None THEN argv.root_key ELSE FileKey
PromptKey == IF prompted = None \/ prompted = Some("raise") THEN None ELSE prompted

\* C1 as stated: when main reaches the dispatch, each of URL, API key, gRPC
\* host and gRPC port holds the value of the highest-priority source that
\* supplies one, in the order CLI flag, YAML file, environment variable, with
\* the prompt last and for the API key only.
C1_PrecedenceAsStated ==
    pc = "dispatch" =>
        /\ args.url = FirstSupplied(<<argv.url, FileValue("weaviate_url"), environ.WEAVIATE_URL>>,
                                      Some(EmptyUrl))
        /\ args.grpc_host = FirstSupplied(<<argv.grpc_host, FileValue("grpc_host"),
                                            environ.WEAVIATE_GRPC_HOST>>, Some(""))
        /\ args.grpc_port = FirstSupplied(<<argv.grpc_port, FileValue("grpc_port"),
                                            environ.WEAVIATE_GRPC_PORT>>, None)
        /\ args.root_key = FirstSupplied(<<argv.root_key, FileKey, EnvKey, PromptKey>>, Some(""))

\* C1 amended: URL, gRPC host and gRPC port hold the CLI flag's value when the
\* flag is given and otherwise the YAML file's value, absent when the file has
\* none; no environment variable is consulted for them.  The API key is the
\* CLI flag's value when the flag is given, otherwise the file's (api_key, else
\* root_key); only when that is absent or empty is the environment variable
\* used (WEAVIATE_API_KEY, else WEAVIATE_ROOT_KEY), and only when that too is
\* absent or empty is the prompt consulted.
C1_Precedence ==
    /\ pc \notin {"parse_args", "load_config", "exited"} =>
          /\ args.url = IF argv.url # None THEN argv.url ELSE FileValue("weaviate_url")
          /\ args.grpc_host = IF argv.grpc_host # None THEN argv.grpc_host
                              ELSE FileValue("grpc_host")
          /\ args.grpc_port = IF argv.grpc_port # None THEN argv.grpc_port
                              ELSE FileValue("grpc_port")
    /\ prompted # None => ~Truthy(FlagOrFileKey) /\ ~Truthy(EnvKey)
    /\ pc = "dispatch" =>
          /\ Truthy(args.root_key)
          /\ Truthy(FlagOrFileKey) => args.root_key = FlagOrFileKey /\ prompted = None
          /\ ~Truthy(FlagOrFileKey) /\ Truthy(EnvKey) =>
                args.root_key = EnvKey /\ prompted = None
          /\ ~Truthy(FlagOrFileKey) /\ ~Truthy(EnvKey) => args.root_key = prompted

\* The file's URL is used although the environment has one, and the key comes
\* from the environment because neither flag nor file has one.
C1_Witness ==
    /\ pc = "dispatch"
    /\ argv.url = None
    /\ environ.WEAVIATE_URL = Some(EnvUrl)
    /\ args.url = Some(YamlUrl)
    /\ argv.grpc_port = Some(443)
    /\ FileValue("grpc_port") = Some(80)
    /\ args.grpc_port = Some(443)
    /\ FlagOrFileKey = None
    /\ args.root_key = Some("env_root_key")

-----------------------------------------------------------------------------
(* C2, C3: failures that end the process *)

UnparsableUrls == {None, Some(BadUrl), Some(EmptyUrl)}

\* connect_to_weaviate was entered and failed: the URL does not parse, or
\* connect_to_custom raised, or the readiness check raised or answered False.
ConnectionFailed ==
    /\ handlersRun # <<>>
    /\ \/ args.url \in UnparsableUrls
       \/ \E i \in DOMAIN trace : trace[i].kind = "connect" /\ Raised(trace[i])
       \/ \E i \in DOMAIN trace : trace[i].kind = "is_ready" /\ trace[i].res # "True"

\* C2: a process whose connection establishment failed terminates with a
\* non-zero exit status.
C2_ConnectFailureExitsNonZero ==
    /\ Exited /\ ConnectionFailed => ExitedNonZero
    /\ ConnectionFailed /\ pc # "connect" => pc \in {"finally", "exited", "not_ready"}
    /\ ConnectionFailed /\ pc = "finally" => pending = Some(1)

\* The instance reported not ready and the process has exited with status 1.
C2_Witness ==
    /\ Exited
    /\ \E i \in DOMAIN trace : trace[i].kind = "is_ready" /\ trace[i].res = "False"
    /\ exitStatus = Some(1)

\* No source gave a key: flag, file and environment have none and the prompt
\* failed or returned nothing.
NoKeyObtained ==
    /\ ~Truthy(argv.root_key)
    /\ ~Truthy(FileKey)
    /\ ~Truthy(EnvKey)
    /\ prompted \in {Some(""), Some("raise")}

\* C3: when no API key is obtained the process terminates with a non-zero
\* status, no connection has been attempted and no handler has run.
C3_NoKeyExits ==
    NoKeyObtained => ExitedNonZero /\ handlersRun = <<>> /\ trace = <<>> /\ conn = "none"

\* The prompt returned an empty key for a valid subcommand.
C3_Witness ==
    /\ NoKeyObtained
    /\ prompted = Some("")
    /\ args.func # None
    /\ Exited

-----------------------------------------------------------------------------
(* C4, C5, C6: what happens after the connection is established *)

\* C4 as stated: a valid subcommand invocation that had a key and established
\* its connection exits with status 0, whatever the management calls and the
\* confirmation prompt did.
C4_ExitZeroAfterConnect ==
    Exited /\ handlersRun # <<>> /\ Connected => exitStatus = Some(0)

\* C5 as stated: when the process has exited, the connection connect_to_custom
\* opened is closed.
C5_ConnectionClosedAtExit ==
    Exited => conn # "open"

\* C6 as stated: an exception raised by a management call is caught in the
\* handler, never reaches main, and does not end the process with a failure.
C6_SdkExceptionsCaught ==
    (\E i \in DOMAIN trace : trace[i].kind = "call" /\ Raised(trace[i])) =>
        /\ ~propagated
        /\ pc = "finally" => pending = Some(0)

-----------------------------------------------------------------------------
(* C7: number of management calls *)

ListHandlers == {"handle_collection_list", "handle_user_list", "handle_role_list"}

Declined == confirm # None /\ confirm[1] \notin {"yes", "YES", "Yes"}

\* C7 as stated: a handler that connected has issued at least one and at most
\* two management calls when the process ends.
C7_OneOrTwoCalls ==
    Exited /\ Connected => Len(Calls) >= 1 /\ Len(Calls) <= 2

\* C7 amended: a handler that connected issues no management call exactly when
\* a delete confirmation was declined, and otherwise at least one; a list
\* handler issues one list_all call and at most one more call per entry
\* returned, every other handler at most four calls.
C7_CallCount ==
    /\ Exited /\ Connected => (Len(Calls) = 0 <=> Declined)
    /\ Connected /\ handlersRun # <<>> /\ Calls # <<>> =>
          IF handlersRun[1] \in ListHandlers
          THEN Len(Calls) <= 1 + Cardinality(Calls[1].items)
          ELSE Len(Calls) <= 4

\* user create --recreate-api-key --role on an existing user_id: list_all,
\* delete, create, assign_roles.
C7_Witness ==
    /\ Exited
    /\ handlersRun = <<"handle_user_create">>
    /\ Len(Calls) = 4

-----------------------------------------------------------------------------
(* C8, C9: order and repetition of the calls *)

\* C8: every management call is made on the global client, after the readiness
\* check of that client answered True and before any close.
C8_CallsOnReadyOpenClient ==
    \A i \in DOMAIN trace :
        trace[i].kind = "call" =>
            /\ trace[i].client # None
            /\ trace[i].conn = "open"
            /\ trace[i].ready
            /\ \E j \in 1..(i - 1) : trace[j].kind = "is_ready" /\ trace[j].res = "True"
            /\ \A j \in 1..(i - 1) : trace[j].kind # "close"

\* A management call was made and the connection has since been closed.
C8_Witness ==
    /\ Exited
    /\ Calls # <<>>
    /\ conn = "closed"
    /\ trace[Len(trace)].kind = "close"

\* C9: connect_to_custom is called at most once, and no management call that
\* raised is issued again.
C9_NoRetry ==
    /\ Len(Connects) <= 1
    /\ \A i \in DOMAIN trace : trace[i].kind = "connect" /\ Raised(trace[i]) => i = Len(trace)
    /\ \A i, j \in DOMAIN Calls :
          i < j /\ Raised(Calls[i]) => ~(Calls[j].op = Calls[i].op /\ Calls[j].arg = Calls[i].arg)

\* A management call raised and the handler went on to another call.
C9_Witness ==
    /\ Exited
    /\ Len(Connects) = 1
    /\ \E i, j \in DOMAIN Calls : i < j /\ Raised(Calls[i])

-----------------------------------------------------------------------------
(* C10: dispatch *)

\* The handler each (resource, action) pair names.
Subcommands ==
    {<<"collection", "create", "handle_collection_create">>,
     <<"collection", "delete", "handle_collection_delete">>,
     <<"collection", "list", "handle_collection_list">>,
     <<"collection", "describe", "handle_collection_describe">>,
     <<"user", "create", "handle_user_create">>,
     <<"user", "delete", "handle_user_delete">>,
     <<"user", "list", "handle_user_list">>,
     <<"user", "update-roles", "handle_user_update_roles">>,
     <<"role", "create", "handle_role_create">>,
     <<"role", "delete", "handle_role_delete">>,
     <<"role", "get", "handle_role_get">>,
     <<"role", "list", "handle_role_list">>}

\* The management calls each handler makes.
OpsOf(handler) ==
    CASE handler = "handle_collection_create" -> {"collections.exists", "collections.create"}
      [] handler = "handle_collection_delete" -> {"collections.delete"}
      [] handler = "handle_collection_list" -> {"collections.list_all", "config.get"}
      [] handler = "handle_collection_describe" ->
             {"collections.exists", "collections.get", "config.get"}
      [] handler = "handle_user_create" ->
             {"users.list_all", "users.delete", "users.create", "users.assign_roles"}
      [] handler = "handle_user_delete" -> {"users.delete"}
      [] handler = "handle_user_list" -> {"users.list_all", "users.get_assigned_roles"}
      [] handler = "handle_user_update_roles" -> {"users.assign_roles"}
      [] handler = "handle_role_create" -> {"roles.exists", "roles.create"}
      [] handler = "handle_role_delete" -> {"roles.delete"}
      [] handler = "handle_role_get" -> {"roles.get"}
      [] handler = "handle_role_list" -> {"roles.list_all", "roles.get"}
      [] OTHER -> {}

\* The command line names one of the twelve pairs.
NamesSubcommand ==
    /\ argv.resource # None
    /\ argv.action # None
    /\ \E t \in Subcommands : t[1] = argv.resource[1] /\ t[2] = argv.action[1]

\* The options given are ones the named subcommand defines.
OptionsFit ==
    /\ argv.detailed => argv.action = Some("list") /\ argv.resource # Some("user")
    /\ argv.role # <<>> =>
          argv.resource = Some("user") /\ argv.action \in {Some("create"), Some("update-roles")}

ExpectedHandler == (CHOOSE t \in Subcommands : t[1] = argv.resource[1] /\ t[2] = argv.action[1])[3]

\* C10 as stated: an invocation naming one of the twelve pairs has run exactly
\* the handler of that pair when it ends; any other invocation runs no handler
\* and opens no connection.
C10_ExactlyOneHandler ==
    Exited =>
        IF NamesSubcommand /\ OptionsFit
        THEN handlersRun = <<ExpectedHandler>>
        ELSE handlersRun = <<>> /\ Connects = <<>>

\* C10 amended: at most one handler runs, the one of the named pair, and its
\* management calls are that handler's; exactly one has run when a process
\* that obtained an API key ends, none when it obtained no key; an invocation
\* with a missing or unknown resource or action runs no handler and opens no
\* connection.
C10_Dispatch ==
    /\ Len(handlersRun) <= 1
    /\ handlersRun # <<>> =>
          /\ NamesSubcommand
          /\ handlersRun[1] = ExpectedHandler
          /\ \A i \in DOMAIN Calls : Calls[i].op \in OpsOf(ExpectedHandler)
    /\ Exited /\ NamesSubcommand /\ OptionsFit =>
          (Len(handlersRun) = 1 <=> Truthy(args.root_key))
    /\ ~NamesSubcommand => handlersRun = <<>> /\ trace = <<>> /\ conn = "none"

\* role get has run handle_role_get and nothing else.
C10_Witness ==
    /\ Exited
    /\ argv.resource = Some("role")
    /\ argv.action = Some("get")
    /\ handlersRun = <<"handle_role_get">>
    /\ Len(Calls) = 1
    /\ Calls[1].op = "roles.get"

-----------------------------------------------------------------------------
(* C11: user update-roles *)

\* C11 as stated: once `user update-roles` has assigned roles successfully,
\* the roles of the user_id are exactly the ones given with --role, none when
\* no --role was given.
C11_RolesReplaced ==
    /\ handlersRun = <<"handle_user_update_roles">>
    /\ \E i \in DOMAIN Calls : Calls[i].op = "users.assign_roles" /\ Calls[i].res = "ok"
    => server.assigned = RoleSet(argv.role)

-----------------------------------------------------------------------------
(* C12, C16, C17: user create *)

InUserCreate == handlersRun = <<"handle_user_create">>

\* list_all answered and the user_id is among the entries: it has an API key.
ListedWithKey ==
    /\ Calls # <<>>
    /\ Calls[1].op = "users.list_all"
    /\ Calls[1].res = "ok"
    /\ TargetId \in Calls[1].items

HandlerDone == pc \in {"finally", "exited"}

\* C12: in `user create` for a user_id that has a key, with
\* --recreate-api-key the delete call is issued and then the create call, no
\* create call comes before the delete call, and the old key is gone once a
\* new one is issued; without the flag neither call is issued and the keys are
\* unchanged.
C12_RecreateApiKey ==
    InUserCreate /\ ListedWithKey =>
        IF argv.recreate_api_key
        THEN /\ \A j \in DOMAIN Calls :
                    Calls[j].op = "users.create" =>
                        \E i \in 1..(j - 1) : Calls[i].op = "users.delete"
             /\ HandlerDone =>
                    /\ \E i \in DOMAIN Calls : Calls[i].op = "users.delete"
                    /\ \E j \in DOMAIN Calls : Calls[j].op = "users.create"
             /\ "new" \in server.keys => "old" \notin server.keys
        ELSE /\ \A i \in DOMAIN Calls : Calls[i].op \notin {"users.delete", "users.create"}
             /\ server.keys = server0.keys

\* The old key was deleted and a new one issued.
C12_Witness ==
    /\ Exited
    /\ InUserCreate
    /\ ListedWithKey
    /\ argv.recreate_api_key
    /\ server0.keys = {"old"}
    /\ server.keys = {"new"}

\* C16: in `user create`, assign_roles is issued only if roles were requested,
\* and only after a create call that returned or, for a user_id that has a key
\* and without --recreate-api-key, without any create or delete call; after a
\* create call that raised it is never issued.
C16_AssignRolesAfterKeyStep ==
    InUserCreate =>
        /\ \A i \in DOMAIN Calls :
              Calls[i].op = "users.assign_roles" =>
                  /\ argv.role # <<>>
                  /\ \/ \E j \in 1..(i - 1) :
                           Calls[j].op = "users.create" /\ Calls[j].res = "ok"
                     \/ /\ ListedWithKey
                        /\ ~argv.recreate_api_key
                        /\ \A j \in DOMAIN Calls :
                              Calls[j].op \notin {"users.create", "users.delete"}
        /\ (\E j \in DOMAIN Calls : Calls[j].op = "users.create" /\ Raised(Calls[j])) =>
              \A i \in DOMAIN Calls : Calls[i].op # "users.assign_roles"

\* A new key was created and the roles were then assigned.
C16_Witness ==
    /\ Exited
    /\ InUserCreate
    /\ Len(Calls) >= 2
    /\ Calls[Len(Calls) - 1].op = "users.create"
    /\ Calls[Len(Calls) - 1].res = "ok"
    /\ Calls[Len(Calls)].op = "users.assign_roles"
    /\ Calls[Len(Calls)].res = "ok"
    /\ server.assigned = {"r1"}

\* C17: in `user create --recreate-api-key`, a delete call that raised is
\* followed by the create call.
C17_CreateAfterFailedDelete ==
    InUserCreate =>
        \A i \in DOMAIN Calls :
            Calls[i].op = "users.delete" /\ Raised(Calls[i]) =>
                \/ pc = "user_create:create"
                \/ \E j \in DOMAIN Calls : j > i /\ Calls[j].op = "users.create"

\* The delete call raised, the create call was made all the same, and the old
\* key is still there.
C17_Witness ==
    /\ Exited
    /\ InUserCreate
    /\ argv.recreate_api_key
    /\ \E i, j \in DOMAIN Calls :
          /\ i < j
          /\ Calls[i].op = "users.delete"
          /\ Raised(Calls[i])
          /\ Calls[j].op = "users.create"
    /\ "old" \in server.keys

-----------------------------------------------------------------------------
(* C13: gRPC parameters *)

\* C13: connect_to_custom receives as gRPC host the supplied host when there is
\* one and otherwise the URL's host, as gRPC port the supplied port when there
\* is one and otherwise 50051, and as gRPC secure flag true for a supplied
\* port 443, false for 80, and otherwise whether the URL's scheme is https.
C13_GrpcParams ==
    \A i \in DOMAIN trace :
        trace[i].kind = "connect" =>
            /\ trace[i].params.grpc_host =
                   IF args.grpc_host \notin {None, Some("")} THEN args.grpc_host[1]
                   ELSE args.url[1].hostname
            /\ trace[i].params.grpc_port =
                   IF args.grpc_port = None THEN 50051 ELSE args.grpc_port[1]
            /\ trace[i].params.grpc_secure =
                   IF args.grpc_port = Some(443) THEN TRUE
                   ELSE IF args.grpc_port = Some(80) THEN FALSE
                   ELSE args.url[1].scheme = "https"

\* Port 80 on an https URL without a gRPC host: the URL's host, not secure.
C13_Witness ==
    /\ Connects # <<>>
    /\ args.url = Some(GoodUrl)
    /\ args.grpc_host = None
    /\ args.grpc_port = Some(80)
    /\ Connects[1].params.grpc_host = "db.example"
    /\ Connects[1].params.http_secure
    /\ ~Connects[1].params.grpc_secure

-----------------------------------------------------------------------------
(* C14, C15: what a handler leaves alone *)

DeleteHandlers == {"handle_collection_delete", "handle_user_delete", "handle_role_delete"}
DeleteOps == {"collections.delete", "users.delete", "roles.delete"}

\* C14: in the three delete handlers a delete call is issued only after an
\* answer that is "yes" in some letter case; after any other answer no call is
\* issued and the instance is unchanged.
C14_DeleteOnlyOnYes ==
    handlersRun # <<>> /\ handlersRun[1] \in DeleteHandlers =>
        /\ (\E i \in DOMAIN Calls : Calls[i].op \in DeleteOps) =>
              confirm \in {Some("yes"), Some("YES"), Some("Yes")}
        /\ confirm # None /\ confirm \notin {Some("yes"), Some("YES"), Some("Yes")} =>
              Calls = <<>> /\ server = server0
        /\ confirm = None => Calls = <<>>

\* "no" was answered for a user_id the instance has; it still has it.
C14_Witness ==
    /\ Exited
    /\ handlersRun = <<"handle_user_delete">>
    /\ confirm = Some("no")
    /\ Calls = <<>>
    /\ TargetId \in server.users

CreateHandlers == {"handle_collection_create", "handle_role_create"}

\* C15: when the exists check of `collection create` or `role create` answers
\* True, no other call is issued, the instance is unchanged and the handler
\* returns normally.
C15_NoCreateWhenExists ==
    /\ handlersRun # <<>>
    /\ handlersRun[1] \in CreateHandlers
    /\ Calls # <<>>
    /\ Calls[1].res = "True"
    => /\ Len(Calls) = 1
       /\ server = server0
       /\ ~propagated
       /\ pc \in {"finally", "exited"}
       /\ pending = Some(0)
       /\ Exited => exitStatus = Some(0)

\* role create for a role that exists has ended without a create call.
C15_Witness ==
    /\ Exited
    /\ handlersRun = <<"handle_role_create">>
    /\ Len(Calls) = 1
    /\ Calls[1].res = "True"
    /\ TargetId \in server.roles
    /\ exitStatus = Some(0)

====
